---- MODULE Spec2Model ----
(***************************************************************************)
(* School-Management: the localStorage record store (js/data.js), the      *)
(* grade / absence / module forms (js/grades.js, js/modules.js) and the    *)
(* average calculators (js/dashboard.js, js/results.js).                   *)
(*                                                                         *)
(* The four localStorage keys are the four sequences students, modules,    *)
(* grades and absences: every data.js function reads the whole array,      *)
(* changes it and writes it back, so one function is one atomic step.      *)
(***************************************************************************)
EXTENDS Integers, Sequences, FiniteSets, TLC

VARIABLES students, modules, grades, absences, call, editingModuleId, field, lastSet, view,
          editingStudentId, studentCIN

vars == <<students, modules, grades, absences, call, editingModuleId, field, lastSet, view,
          editingStudentId, studentCIN>>

(***************************************************************************)
(* Bounds of the model.                                                    *)
(***************************************************************************)
\* largest student id / module id the model lets addStudent / addModule assign
MaxStudentId == 2
MaxModuleId == 2
\* longest grades / absences array the model lets setGrade / setAbsenceCount build
MaxGrades == 2
MaxAbsences == 2

StudentIds == 1..MaxStudentId
ModuleIds == 1..MaxModuleId

(***************************************************************************)
(* JavaScript values.  A number is [t |-> "num", n |-> Int]; null, NaN and *)
(* undefined are tags; a string is [t |-> "str", s |-> STRING].            *)
(***************************************************************************)
Num(n) == [t |-> "num", n |-> n]
Str(s) == [t |-> "str", s |-> s]
JNull == [t |-> "null"]
JNaN == [t |-> "nan"]

\* parseFloat / parseInt of a string of the model (all numerals are integers)
ParseNumber(s) ==
    CASE s = "0" -> Num(0)
      [] s = "1" -> Num(1)
      [] s = "2" -> Num(2)
      [] s = "3" -> Num(3)
      [] s = "10" -> Num(10)
      [] s = "15" -> Num(15)
      [] s = "20" -> Num(20)
      [] s = "21" -> Num(21)
      [] s = "-1" -> Num(0 - 1)
      [] OTHER -> JNaN

\* String.prototype.trim on the strings of the model
Trim(s) ==
    CASE s = " 20 " -> "20"
      [] s = "  " -> ""
      [] s = " Math " -> "Math"
      [] s = " CD67890 " -> "CD67890"
      [] OTHER -> s

\* String.prototype.toLowerCase on the module names of the model
ToLowerCase(s) ==
    CASE s = "Math" -> "math"
      [] s = "MATH" -> "math"
      [] s = "Phys" -> "phys"
      [] OTHER -> s

\* parseFloat(v) of a JavaScript value
ParseFloat(v) ==
    CASE v.t = "num" -> v
      [] v.t = "str" -> ParseNumber(Trim(v.s))
      [] OTHER -> JNaN

\* Number(v), the coercion isNaN applies to its argument
ToNumber(v) ==
    CASE v.t = "num" -> v
      [] v.t = "null" -> Num(0)
      [] v.t = "str" -> IF Trim(v.s) = "" THEN Num(0) ELSE ParseNumber(Trim(v.s))
      [] OTHER -> JNaN

\* the global isNaN(v)
IsNaN(v) == ToNumber(v).t = "nan"

(***************************************************************************)
(* Array helpers.                                                          *)
(***************************************************************************)
\* findIndex(r => r.id === id), 1-based; 0 stands for -1
IdIndex(seq, id) ==
    IF \E i \in 1..Len(seq) : seq[i].id = id
    THEN CHOOSE i \in 1..Len(seq) : seq[i].id = id /\ \A j \in 1..(i - 1) : seq[j].id # id
    ELSE 0

\* findIndex(r => r.studentId === studentId && r.moduleId === moduleId), 1-based; 0 stands for -1
PairIndex(seq, studentId, moduleId) ==
    IF \E i \in 1..Len(seq) : seq[i].studentId = studentId /\ seq[i].moduleId = moduleId
    THEN CHOOSE i \in 1..Len(seq) :
            /\ seq[i].studentId = studentId /\ seq[i].moduleId = moduleId
            /\ \A j \in 1..(i - 1) : ~(seq[j].studentId = studentId /\ seq[j].moduleId = moduleId)
    ELSE 0

\* Array.prototype.splice(index, 1)
Splice1(seq, index) == [i \in 1..(Len(seq) - 1) |-> IF i < index THEN seq[i] ELSE seq[i + 1]]

\* Math.max(...seq.map(r => r.id)), 0 on the empty array
MaxIdOf(seq) ==
    IF Len(seq) = 0 THEN 0
    ELSE CHOOSE x \in {seq[i].id : i \in 1..Len(seq)} : \A j \in 1..Len(seq) : seq[j].id <= x

(***************************************************************************)
(* js/data.js: students.                                                   *)
(***************************************************************************)
\* addStudent(student): [ret, students]
addStudent(ss, student) ==
    IF \E i \in 1..Len(ss) : ss[i].cin = student.cin
    THEN [ret |-> FALSE, students |-> ss]
    ELSE [ret |-> TRUE,
          students |-> Append(ss, [student EXCEPT !.id = MaxIdOf(ss) + 1])]

\* updateStudent without its check of the cin against the other students
updateStudent_noCinCheck(ss, id, updatedStudent) ==
    LET index == IdIndex(ss, id)
    IN  IF index = 0 THEN [ret |-> FALSE, students |-> ss]
        ELSE [ret |-> TRUE,
              students |-> [ss EXCEPT ![index] = [updatedStudent EXCEPT !.id = id]]]

\* updateStudent(id, updatedStudent): [ret, students]
updateStudent(ss, id, updatedStudent) ==
    LET index == IdIndex(ss, id)
        otherStudents == SelectSeq(ss, LAMBDA s : s.id # id)
    IN  IF index = 0 THEN [ret |-> FALSE, students |-> ss]
        ELSE IF \E i \in 1..Len(otherStudents) : otherStudents[i].cin = updatedStudent.cin
             THEN [ret |-> FALSE, students |-> ss]
             ELSE [ret |-> TRUE,
                   students |-> [ss EXCEPT ![index] = [updatedStudent EXCEPT !.id = id]]]

\* a deleteStudentGrades that leaves the grades of the student
deleteStudentGrades_kept(gs, studentId) == gs

\* deleteStudentGrades(studentId): the grades array afterwards
deleteStudentGrades(gs, studentId) == SelectSeq(gs, LAMBDA g : g.studentId # studentId)

\* deleteModuleGrades(moduleId): the grades array afterwards
deleteModuleGrades(gs, moduleId) == SelectSeq(gs, LAMBDA g : g.moduleId # moduleId)

\* deleteStudent(id): the four arrays afterwards
deleteStudent(st, id) ==
    [students |-> SelectSeq(st.students, LAMBDA s : s.id # id),
     modules |-> st.modules,
     grades |-> deleteStudentGrades(st.grades, id),
     absences |-> st.absences]

\* getStudentById(id) !== null
studentExists(ss, id) == \E i \in 1..Len(ss) : ss[i].id = id

(***************************************************************************)
(* js/data.js: modules.                                                    *)
(***************************************************************************)
\* addModule comparing the names as they are, without toLowerCase
addModule_caseSensitive(ms, module) ==
    IF \E i \in 1..Len(ms) : ms[i].name = module.name
    THEN [ret |-> FALSE, modules |-> ms]
    ELSE [ret |-> TRUE,
          modules |-> Append(ms, [module EXCEPT !.id = MaxIdOf(ms) + 1])]

\* addModule(module): [ret, modules]
addModule(ms, module) ==
    IF \E i \in 1..Len(ms) : ToLowerCase(ms[i].name) = ToLowerCase(module.name)
    THEN [ret |-> FALSE, modules |-> ms]
    ELSE [ret |-> TRUE,
          modules |-> Append(ms, [module EXCEPT !.id = MaxIdOf(ms) + 1])]

\* updateModule(id, updatedModule): [ret, modules]
updateModule(ms, id, updatedModule) ==
    LET index == IdIndex(ms, id)
        otherModules == SelectSeq(ms, LAMBDA m : m.id # id)
    IN  IF index = 0 THEN [ret |-> FALSE, modules |-> ms]
        ELSE IF \E i \in 1..Len(otherModules) :
                    ToLowerCase(otherModules[i].name) = ToLowerCase(updatedModule.name)
             THEN [ret |-> FALSE, modules |-> ms]
             ELSE [ret |-> TRUE,
                   modules |-> [ms EXCEPT ![index] = [updatedModule EXCEPT !.id = id]]]

\* deleteModule(id): the four arrays afterwards
deleteModule(st, id) ==
    [students |-> st.students,
     modules |-> SelectSeq(st.modules, LAMBDA m : m.id # id),
     grades |-> deleteModuleGrades(st.grades, id),
     absences |-> st.absences]

\* getModuleById(id) !== null
moduleExists(ms, id) == \E i \in 1..Len(ms) : ms[i].id = id

(***************************************************************************)
(* js/data.js: grades.                                                     *)
(***************************************************************************)
\* getGrade(studentId, moduleId): the grade as a JavaScript number, or null
getGrade(gs, studentId, moduleId) ==
    LET index == PairIndex(gs, studentId, moduleId)
    IN  IF index = 0 THEN JNull ELSE Num(gs[index].grade)

\* setGrade with "if (!grade)" for its test of an empty grade: the grade 0 removes the record
setGrade_falsy(gs, studentId, moduleId, grade) ==
    LET index == PairIndex(gs, studentId, moduleId)
    IN  IF grade = JNull \/ grade = Str("") \/ IsNaN(grade) \/ grade = Num(0)
        THEN IF index # 0 THEN Splice1(gs, index) ELSE gs
        ELSE IF index # 0
             THEN [gs EXCEPT ![index].grade = ParseFloat(grade).n]
             ELSE Append(gs, [studentId |-> studentId, moduleId |-> moduleId,
                              grade |-> ParseFloat(grade).n])

\* setGrade pushing a new record also when the pair has one
setGrade_push(gs, studentId, moduleId, grade) ==
    LET index == PairIndex(gs, studentId, moduleId)
    IN  IF grade = JNull \/ grade = Str("") \/ IsNaN(grade)
        THEN IF index # 0 THEN Splice1(gs, index) ELSE gs
        ELSE Append(gs, [studentId |-> studentId, moduleId |-> moduleId,
                         grade |-> ParseFloat(grade).n])

\* setGrade(studentId, moduleId, grade): the grades array afterwards
setGrade(gs, studentId, moduleId, grade) ==
    LET index == PairIndex(gs, studentId, moduleId)
    IN  IF grade = JNull \/ grade = Str("") \/ IsNaN(grade)
        THEN IF index # 0 THEN Splice1(gs, index) ELSE gs
        ELSE LET gradeValue == ParseFloat(grade).n
             IN  IF index # 0
                 THEN [gs EXCEPT ![index].grade = gradeValue]
                 ELSE Append(gs, [studentId |-> studentId, moduleId |-> moduleId,
                                  grade |-> gradeValue])

\* getStudentGrades(studentId): the set of module ids that are keys of the object
studentGradeKeys(gs, studentId) ==
    {gs[i].moduleId : i \in {j \in 1..Len(gs) : gs[j].studentId = studentId}}

\* getStudentGrades(studentId)[moduleId]: a later record of the array overwrites an earlier one
studentGradeOf(gs, studentId, moduleId) ==
    LET idx == {j \in 1..Len(gs) : gs[j].studentId = studentId /\ gs[j].moduleId = moduleId}
    IN  gs[CHOOSE j \in idx : \A k \in idx : k <= j].grade

(***************************************************************************)
(* js/data.js: absences.                                                   *)
(***************************************************************************)
\* getAbsenceCount(studentId, moduleId)
getAbsenceCount(as, studentId, moduleId) ==
    LET index == PairIndex(as, studentId, moduleId)
    IN  IF index = 0 THEN 0 ELSE as[index].count

\* setAbsenceCount(studentId, moduleId, count): the absences array afterwards; count is a
\* number that is an integer, of which "parseInt(count) || 0" is count itself
setAbsenceCount(as, studentId, moduleId, count) ==
    LET countValue == count
        index == PairIndex(as, studentId, moduleId)
    IN  IF countValue = 0
        THEN IF index # 0 THEN Splice1(as, index) ELSE as
        ELSE IF index # 0
             THEN [as EXCEPT ![index].count = countValue]
             ELSE Append(as, [studentId |-> studentId, moduleId |-> moduleId,
                              count |-> countValue])

(***************************************************************************)
(* The state after construction: an empty localStorage, both forms idle.   *)
(***************************************************************************)
NoCall == [op |-> "none", sid |-> 0, mid |-> 0, ret |-> "undefined"]

\* nothing was looked up yet
NoView == [op |-> "none"]

Init ==
    /\ students = <<>>
    /\ modules = <<>>
    /\ grades = <<>>
    /\ absences = <<>>
    /\ call = NoCall
    /\ editingModuleId = 0
    /\ field = ""
    /\ lastSet = [p \in StudentIds \X ModuleIds |-> JNull]
    /\ view = NoView
    /\ editingStudentId = 0
    /\ studentCIN = [value |-> "", disabled |-> FALSE]

store == [students |-> students, modules |-> modules, grades |-> grades, absences |-> absences]

Bool(b) == IF b THEN "true" ELSE "false"

(***************************************************************************)
(* Calls of the data.js functions.                                         *)
(***************************************************************************)
\* the student objects and module objects passed to the store
StudentInputs == {[id |-> 0, cin |-> c, name |-> "Ali"] : c \in {"AB12345", "CD67890"}}
StudentEdits ==
    {[id |-> 0, cin |-> c, name |-> n] : c \in {"AB12345", "CD67890", "EF24680"}, n \in {"Ali", "Sara"}}
ModuleInputs == {[id |-> 0, name |-> n, coefficient |-> 1] : n \in {"Math", "Phys"}}
ModuleEdits ==
    {[id |-> 0, name |-> n, coefficient |-> c] : n \in {"Math", "math", "Phys"}, c \in {1, 2}}
\* the grade arguments of setGrade: null, '', a non-numeric string, NaN and numbers
GradeArgs == {JNull, Str(""), Str("abc"), JNaN, Num(0), Num(15), Num(20)}
\* the count arguments of setAbsenceCount
CountArgs == {0, 1}

AddStudentCall(student) ==
    LET r == addStudent(students, student)
    IN  /\ r.ret => MaxIdOf(students) + 1 <= MaxStudentId
        /\ students' = r.students
        /\ call' = [op |-> "addStudent", sid |-> IF r.ret THEN MaxIdOf(students) + 1 ELSE 0,
                    mid |-> 0, ret |-> Bool(r.ret)]
        /\ UNCHANGED <<modules, grades, absences, editingModuleId, field, lastSet, view, editingStudentId, studentCIN>>

AddStudentOf(inputs) == \E student \in inputs : AddStudentCall(student)

UpdateStudentCall(id, student) ==
    LET r == updateStudent(students, id, student)
    IN  /\ students' = r.students
        /\ call' = [op |-> "updateStudent", sid |-> id, mid |-> 0, ret |-> Bool(r.ret)]
        /\ UNCHANGED <<modules, grades, absences, editingModuleId, field, lastSet, view, editingStudentId, studentCIN>>

UpdateStudentOf(inputs) ==
    \E id \in StudentIds, student \in inputs : UpdateStudentCall(id, student)

\* deleteStudent(id) for a student of the table (students.js checks getStudentById first)
DeleteStudent ==
    \E id \in StudentIds :
        LET r == deleteStudent(store, id)
        IN  /\ studentExists(students, id)
            /\ students' = r.students
            /\ modules' = r.modules
            /\ grades' = r.grades
            /\ absences' = r.absences
            /\ call' = [op |-> "deleteStudent", sid |-> id, mid |-> 0, ret |-> "undefined"]
            /\ UNCHANGED <<editingModuleId, field, lastSet, view, editingStudentId, studentCIN>>

AddModuleCall(module) ==
    LET r == addModule(modules, module)
    IN  /\ r.ret => MaxIdOf(modules) + 1 <= MaxModuleId
        /\ modules' = r.modules
        /\ call' = [op |-> "addModule", sid |-> 0,
                    mid |-> IF r.ret THEN MaxIdOf(modules) + 1 ELSE 0, ret |-> Bool(r.ret)]
        /\ UNCHANGED <<students, grades, absences, editingModuleId, field, lastSet, view, editingStudentId, studentCIN>>

AddModuleOf(inputs) == \E module \in inputs : AddModuleCall(module)

UpdateModuleCall(id, module) ==
    LET r == updateModule(modules, id, module)
    IN  /\ modules' = r.modules
        /\ call' = [op |-> "updateModule", sid |-> 0, mid |-> id, ret |-> Bool(r.ret)]
        /\ UNCHANGED <<students, grades, absences, editingModuleId, field, lastSet, view, editingStudentId, studentCIN>>

UpdateModuleOf(inputs) ==
    \E id \in ModuleIds, module \in inputs : UpdateModuleCall(id, module)

\* deleteModule(id) for a module of the table (modules.js checks getModuleById first)
DeleteModule ==
    \E id \in ModuleIds :
        LET r == deleteModule(store, id)
        IN  /\ moduleExists(modules, id)
            /\ students' = r.students
            /\ modules' = r.modules
            /\ grades' = r.grades
            /\ absences' = r.absences
            /\ call' = [op |-> "deleteModule", sid |-> 0, mid |-> id, ret |-> "undefined"]
            /\ UNCHANGED <<editingModuleId, field, lastSet, view, editingStudentId, studentCIN>>

\* what getGrade is to return after setGrade(s, m, grade): the number given, else null
GivenGrade(grade) == IF grade.t = "num" THEN grade ELSE JNull

\* setGrade(s, m, grade) on the grades array
SetGradeCall(s, m, grade) ==
    LET gs == setGrade(grades, s, m, grade)
    IN  /\ Len(gs) <= MaxGrades
        /\ grades' = gs
        /\ call' = [op |-> "setGrade", sid |-> 0, mid |-> 0, ret |-> "undefined"]
        /\ UNCHANGED <<students, modules, absences, editingModuleId, field, editingStudentId, studentCIN>>

\* setGrade with the history of what each pair was last given
SetGradeTracked ==
    \E s \in StudentIds, m \in ModuleIds, grade \in GradeArgs :
        /\ SetGradeCall(s, m, grade)
        /\ lastSet' = [lastSet EXCEPT ![<<s, m>>] = GivenGrade(grade)]
        /\ UNCHANGED view

\* a cell of the grades table: a stored student and a stored module
Row(s, m) == studentExists(students, s) /\ moduleExists(modules, m)

\* setGrade for a cell of the grades table
RowSetGrade ==
    \E s \in StudentIds, m \in ModuleIds, grade \in GradeArgs :
        Row(s, m) /\ SetGradeCall(s, m, grade) /\ UNCHANGED <<lastSet, view>>

\* setAbsenceCount(s, m, count) on the absences array
SetAbsenceCountCall(s, m, count) ==
    LET as == setAbsenceCount(absences, s, m, count)
    IN  /\ Len(as) <= MaxAbsences
        /\ absences' = as
        /\ call' = [op |-> "setAbsenceCount", sid |-> 0, mid |-> 0, ret |-> "undefined"]
        /\ UNCHANGED <<students, modules, grades, editingModuleId, field, lastSet, view, editingStudentId, studentCIN>>

\* setAbsenceCount for a cell of the grades table
RowSetAbsenceCount ==
    \E s \in StudentIds, m \in ModuleIds, count \in CountArgs :
        Row(s, m) /\ SetAbsenceCountCall(s, m, count)

StoreAddStudent == AddStudentOf(StudentInputs)
StoreAddModule == AddModuleOf(ModuleInputs)

(***************************************************************************)
(* The store under any sequence of addStudent, addModule, setGrade,        *)
(* setAbsenceCount, deleteStudent and deleteModule.                        *)
(***************************************************************************)
NextStore ==
    \/ StoreAddStudent
    \/ StoreAddModule
    \/ RowSetGrade
    \/ RowSetAbsenceCount
    \/ DeleteStudent
    \/ DeleteModule

SpecStore == Init /\ [][NextStore]_vars

\* C1: after deleteStudent(id) the store holds no Grade record and no Absence
\* record whose studentId is id.
C1_DeleteStudentCascades ==
    call.op = "deleteStudent" =>
        /\ \A i \in 1..Len(grades) : grades[i].studentId # call.sid
        /\ \A i \in 1..Len(absences) : absences[i].studentId # call.sid

\* C2: after deleteModule(id) the store holds no Grade record and no Absence
\* record whose moduleId is id.
C2_DeleteModuleCascades ==
    call.op = "deleteModule" =>
        /\ \A i \in 1..Len(grades) : grades[i].moduleId # call.mid
        /\ \A i \in 1..Len(absences) : absences[i].moduleId # call.mid

ApiAddStudent == AddStudentOf(StudentEdits)
ApiUpdateStudent == UpdateStudentOf(StudentEdits)
ApiAddModule == AddModuleOf(ModuleEdits)
ApiUpdateModule == UpdateModuleOf(ModuleEdits)

(***************************************************************************)
(* The modules array under any sequence of addModule, updateModule and     *)
(* deleteModule.                                                           *)
(***************************************************************************)
NextModules ==
    \/ ApiAddModule
    \/ ApiUpdateModule
    \/ DeleteModule

SpecModules == Init /\ [][NextModules]_vars

(***************************************************************************)
(* The students array under any sequence of addStudent, updateStudent and  *)
(* deleteStudent.                                                          *)
(***************************************************************************)
NextStudents ==
    \/ ApiAddStudent
    \/ ApiUpdateStudent
    \/ DeleteStudent

SpecStudents == Init /\ [][NextStudents]_vars

(***************************************************************************)
(* js/grades.js: the grade input and the absence input of a table cell.    *)
(***************************************************************************)
\* String(n) of a number of the model, as assigning it to input.value does
NumberToString(n) ==
    CASE n = 0 -> "0"
      [] n = 1 -> "1"
      [] n = 2 -> "2"
      [] n = 3 -> "3"
      [] n = 10 -> "10"
      [] n = 15 -> "15"
      [] n = 20 -> "20"
      [] n = 21 -> "21"
      [] OTHER -> "-1"

\* isValidGrade with the upper limit of the range forgotten
isValidGrade_noMax(grade) ==
    LET numGrade == ParseNumber(grade)
    IN  numGrade.t # "nan" /\ numGrade.n >= 0

\* isValidGrade(grade), grade the trimmed text of the input
isValidGrade(grade) ==
    LET numGrade == ParseNumber(grade)
    IN  numGrade.t # "nan" /\ numGrade.n >= 0 /\ numGrade.n <= 20

\* handleGradeChange(studentId, moduleId, input): [grades, field, ret], field the
\* input's value afterwards
handleGradeChange(gs, studentId, moduleId, text) ==
    LET value == Trim(text)
        previousGrade == getGrade(gs, studentId, moduleId)
    IN  IF value = ""
        THEN [grades |-> setGrade(gs, studentId, moduleId, JNull), field |-> text,
              ret |-> "removed"]
        ELSE IF ~isValidGrade(value)
             THEN [grades |-> gs,
                   field |-> IF previousGrade # JNull THEN NumberToString(previousGrade.n) ELSE "",
                   ret |-> "rejected"]
             ELSE [grades |-> setGrade(gs, studentId, moduleId, ParseNumber(value)),
                   field |-> text, ret |-> "saved"]

\* handleAbsenceChange with "count <= 0" for its test of a negative count
handleAbsenceChange_noZero(as, studentId, moduleId, text) ==
    LET value == Trim(text)
        count == ParseNumber(value)
    IN  IF value = ""
        THEN [absences |-> setAbsenceCount(as, studentId, moduleId, 0), field |-> "0",
              ret |-> "cleared"]
        ELSE IF count.t = "nan" \/ count.n <= 0
             THEN [absences |-> as,
                   field |-> NumberToString(getAbsenceCount(as, studentId, moduleId)),
                   ret |-> "rejected"]
             ELSE [absences |-> setAbsenceCount(as, studentId, moduleId, count.n),
                   field |-> text, ret |-> "saved"]

\* handleAbsenceChange(studentId, moduleId, input): [absences, field, ret]
handleAbsenceChange(as, studentId, moduleId, text) ==
    LET value == Trim(text)
        count == ParseNumber(value)
    IN  IF value = ""
        THEN [absences |-> setAbsenceCount(as, studentId, moduleId, 0), field |-> "0",
              ret |-> "cleared"]
        ELSE IF count.t = "nan" \/ count.n < 0
             THEN [absences |-> as,
                   field |-> NumberToString(getAbsenceCount(as, studentId, moduleId)),
                   ret |-> "rejected"]
             ELSE [absences |-> setAbsenceCount(as, studentId, moduleId, count.n),
                   field |-> text, ret |-> "saved"]

\* the texts typed into a grade input and into an absence input
GradeTexts == {"", "abc", "-1", "0", " 20 ", "21"}
AbsenceTexts == {"", "abc", "-1", "0", "1", "2"}

HandleGradeChangeCall(s, m, text) ==
    LET r == handleGradeChange(grades, s, m, text)
    IN  /\ Row(s, m)
        /\ Len(r.grades) <= MaxGrades
        /\ grades' = r.grades
        /\ field' = r.field
        /\ call' = [op |-> "handleGradeChange", sid |-> 0, mid |-> 0, ret |-> r.ret]
        /\ UNCHANGED <<students, modules, absences, editingModuleId, lastSet, view, editingStudentId, studentCIN>>

HandleGradeChange ==
    \E s \in StudentIds, m \in ModuleIds, text \in GradeTexts : HandleGradeChangeCall(s, m, text)

HandleAbsenceChangeCall(s, m, text) ==
    LET r == handleAbsenceChange(absences, s, m, text)
    IN  /\ Row(s, m)
        /\ Len(r.absences) <= MaxAbsences
        /\ absences' = r.absences
        /\ field' = r.field
        /\ call' = [op |-> "handleAbsenceChange", sid |-> 0, mid |-> 0, ret |-> r.ret]
        /\ UNCHANGED <<students, modules, grades, editingModuleId, lastSet, view, editingStudentId, studentCIN>>

HandleAbsenceChange ==
    \E s \in StudentIds, m \in ModuleIds, text \in AbsenceTexts :
        HandleAbsenceChangeCall(s, m, text)

(***************************************************************************)
(* The grades table: students and modules are added, grades are typed.     *)
(***************************************************************************)
NextGradeForm ==
    \/ StoreAddStudent
    \/ StoreAddModule
    \/ HandleGradeChange

SpecGradeForm == Init /\ [][NextGradeForm]_vars

(***************************************************************************)
(* The grades table: students and modules are added, absences are typed    *)
(* or set by setAbsenceCount with a count that is no negative number.      *)
(***************************************************************************)
NextAbsenceForm ==
    \/ StoreAddStudent
    \/ StoreAddModule
    \/ HandleAbsenceChange
    \/ RowSetAbsenceCount

SpecAbsenceForm == Init /\ [][NextAbsenceForm]_vars

(***************************************************************************)
(* js/modules.js: the module form.  editingModuleId is 0 for null.         *)
(***************************************************************************)
\* handleFormSubmit accepting a coefficient of 0 ("coefficient < 0")
moduleFormSubmit_zeroOk(ms, editing, nameText, coefficientText) ==
    LET name == Trim(nameText)
        coefficient == ParseNumber(coefficientText)
        moduleData == [id |-> 0, name |-> name, coefficient |-> coefficient.n]
    IN  IF name = "" THEN [modules |-> ms, editingModuleId |-> editing, ret |-> "invalid"]
        ELSE IF coefficient.t = "nan" \/ coefficient.n < 0
             THEN [modules |-> ms, editingModuleId |-> editing, ret |-> "invalid"]
             ELSE LET r == IF editing # 0 THEN updateModule(ms, editing, moduleData)
                                          ELSE addModule(ms, moduleData)
                  IN  IF r.ret
                      THEN [modules |-> r.modules, editingModuleId |-> 0, ret |-> "true"]
                      ELSE [modules |-> r.modules, editingModuleId |-> editing, ret |-> "false"]

\* handleFormSubmit(event) of modules.js: [modules, editingModuleId, ret]; ret is
\* "invalid" when validation stops it, else what updateModule / addModule returned
moduleFormSubmit(ms, editing, nameText, coefficientText) ==
    LET name == Trim(nameText)
        coefficient == ParseNumber(coefficientText)
        moduleData == [id |-> 0, name |-> name, coefficient |-> coefficient.n]
    IN  IF name = "" THEN [modules |-> ms, editingModuleId |-> editing, ret |-> "invalid"]
        ELSE IF coefficient.t = "nan" \/ coefficient.n <= 0
             THEN [modules |-> ms, editingModuleId |-> editing, ret |-> "invalid"]
             ELSE LET r == IF editing # 0 THEN updateModule(ms, editing, moduleData)
                                          ELSE addModule(ms, moduleData)
                  IN  IF r.ret
                      THEN [modules |-> r.modules, editingModuleId |-> 0, ret |-> "true"]
                      ELSE [modules |-> r.modules, editingModuleId |-> editing, ret |-> "false"]

\* the texts typed into the name field and into the coefficient field
NameTexts == {"", "Math", " Math ", "math", "Phys"}
CoefficientTexts == {"", "abc", "0", "-1", "1", "2"}

ModuleFormSubmitCall(nameText, coefficientText) ==
    LET r == moduleFormSubmit(modules, editingModuleId, nameText, coefficientText)
    IN  /\ Len(r.modules) > Len(modules) => MaxIdOf(modules) + 1 <= MaxModuleId
        /\ modules' = r.modules
        /\ editingModuleId' = r.editingModuleId
        /\ call' = [op |-> "moduleFormSubmit", sid |-> 0, mid |-> editingModuleId, ret |-> r.ret]
        /\ UNCHANGED <<students, grades, absences, field, lastSet, view, editingStudentId, studentCIN>>

ModuleFormSubmit ==
    \E nameText \in NameTexts, coefficientText \in CoefficientTexts :
        ModuleFormSubmitCall(nameText, coefficientText)

\* editModule(moduleId)
EditModule ==
    \E id \in ModuleIds :
        /\ editingModuleId' = IF moduleExists(modules, id) THEN id ELSE editingModuleId
        /\ call' = [op |-> "editModule", sid |-> 0, mid |-> id,
                    ret |-> Bool(moduleExists(modules, id))]
        /\ UNCHANGED <<students, modules, grades, absences, field, lastSet, view, editingStudentId, studentCIN>>

\* resetForm() of modules.js, the Cancel button
ResetModuleForm ==
    /\ editingModuleId' = 0
    /\ call' = [op |-> "resetForm", sid |-> 0, mid |-> 0, ret |-> "undefined"]
    /\ UNCHANGED <<students, modules, grades, absences, field, lastSet, view, editingStudentId, studentCIN>>

\* deleteModuleHandler(moduleId); confirmed is the answer to confirm()
DeleteModuleHandler ==
    \E id \in ModuleIds, confirmed \in BOOLEAN :
        LET r == deleteModule(store, id)
        IN  /\ moduleExists(modules, id)
            /\ IF confirmed
               THEN /\ students' = r.students
                    /\ modules' = r.modules
                    /\ grades' = r.grades
                    /\ absences' = r.absences
                    /\ editingModuleId' = IF editingModuleId = id THEN 0 ELSE editingModuleId
               ELSE UNCHANGED <<students, modules, grades, absences, editingModuleId, editingStudentId, studentCIN>>
            /\ call' = [op |-> "deleteModuleHandler", sid |-> 0, mid |-> id,
                        ret |-> Bool(confirmed)]
            /\ UNCHANGED <<field, lastSet, view, editingStudentId, studentCIN>>

(***************************************************************************)
(* The modules page: submit, edit, cancel and delete in any order.         *)
(***************************************************************************)
NextModuleForm ==
    \/ ModuleFormSubmit
    \/ EditModule
    \/ ResetModuleForm
    \/ DeleteModuleHandler

SpecModuleForm == Init /\ [][NextModuleForm]_vars

(***************************************************************************)
(* js/dashboard.js and js/results.js: the average of a student.  A quotient *)
(* totalPoints / totalCoefficient is kept as the pair of its two terms.     *)
(***************************************************************************)
Quotient(points, coefficient) == [t |-> "num", num |-> points, den |-> coefficient]

\* the forEach over the modules: [points, coef, graded] after the modules from index i on
RECURSIVE accumulate(_, _, _, _, _)
accumulate(ms, gs, studentId, i, acc) ==
    IF i > Len(ms) THEN acc
    ELSE IF ms[i].id \in studentGradeKeys(gs, studentId)
         THEN accumulate(ms, gs, studentId, i + 1,
                  [points |-> acc.points + studentGradeOf(gs, studentId, ms[i].id) * ms[i].coefficient,
                   coef |-> acc.coef + ms[i].coefficient,
                   graded |-> acc.graded + 1])
         ELSE accumulate(ms, gs, studentId, i + 1, acc)

\* the forEach with "if (grade)" for its test of a recorded grade: a grade of 0 is skipped
RECURSIVE accumulate_falsy(_, _, _, _, _)
accumulate_falsy(ms, gs, studentId, i, acc) ==
    IF i > Len(ms) THEN acc
    ELSE IF /\ ms[i].id \in studentGradeKeys(gs, studentId)
            /\ studentGradeOf(gs, studentId, ms[i].id) # 0
         THEN accumulate_falsy(ms, gs, studentId, i + 1,
                  [points |-> acc.points + studentGradeOf(gs, studentId, ms[i].id) * ms[i].coefficient,
                   coef |-> acc.coef + ms[i].coefficient,
                   graded |-> acc.graded + 1])
         ELSE accumulate_falsy(ms, gs, studentId, i + 1, acc)

\* the totals of the forEach with "if (grade)" for a test
totals_falsy(ms, gs, studentId) ==
    accumulate_falsy(ms, gs, studentId, 1, [points |-> 0, coef |-> 0, graded |-> 0])

\* the totals of the forEach of calculateStudentAverage
totals(ms, gs, studentId) ==
    accumulate(ms, gs, studentId, 1, [points |-> 0, coef |-> 0, graded |-> 0])

\* calculateStudentAverage of dashboard.js returning 0 where it has no coefficient to divide by
calculateStudentAverage_zero(ms, gs, studentId) ==
    LET tot == totals(ms, gs, studentId)
    IN  IF Len(ms) = 0 \/ studentGradeKeys(gs, studentId) = {} \/ tot.coef = 0
        THEN Quotient(0, 1)
        ELSE Quotient(tot.points, tot.coef)

\* calculateStudentAverage dividing by the number of graded modules, not by their coefficients
calculateStudentAverage_byCount(ms, gs, studentId) ==
    LET tot == totals(ms, gs, studentId)
    IN  IF Len(ms) = 0 \/ studentGradeKeys(gs, studentId) = {} THEN JNull
        ELSE IF tot.coef = 0 THEN JNull
             ELSE Quotient(tot.points, tot.graded)

\* calculateStudentAverage(studentId) of dashboard.js: null or the quotient
calculateStudentAverage(ms, gs, studentId) ==
    LET tot == totals(ms, gs, studentId)
    IN  IF Len(ms) = 0 \/ studentGradeKeys(gs, studentId) = {} THEN JNull
        ELSE IF tot.coef = 0 THEN JNull
             ELSE Quotient(tot.points, tot.coef)

\* calculateStudentAverage of results.js with "if (grade)" for its test of a recorded grade
resultsStudentAverage_falsy(ms, gs, studentId) ==
    LET tot == totals_falsy(ms, gs, studentId)
    IN  IF Len(ms) = 0 THEN [average |-> JNull, hasGrades |-> FALSE, moduleCount |-> 0]
        ELSE IF tot.coef = 0
             THEN [average |-> JNull, hasGrades |-> FALSE, moduleCount |-> tot.graded]
             ELSE [average |-> Quotient(tot.points, tot.coef), hasGrades |-> TRUE,
                   moduleCount |-> tot.graded]

\* calculateStudentAverage(studentId) of results.js: {average, hasGrades, moduleCount}
resultsStudentAverage(ms, gs, studentId) ==
    LET tot == totals(ms, gs, studentId)
    IN  IF Len(ms) = 0 THEN [average |-> JNull, hasGrades |-> FALSE, moduleCount |-> 0]
        ELSE IF tot.coef = 0
             THEN [average |-> JNull, hasGrades |-> FALSE, moduleCount |-> tot.graded]
             ELSE [average |-> Quotient(tot.points, tot.coef), hasGrades |-> TRUE,
                   moduleCount |-> tot.graded]

\* the modules and grades the averages are computed from
AverageModuleInputs ==
    {[id |-> 0, name |-> "Math", coefficient |-> 2], [id |-> 0, name |-> "Phys", coefficient |-> 1]}
AverageGradeArgs == {JNull, Num(0), Num(20)}

AverageAddModule == AddModuleOf(AverageModuleInputs)

AverageSetGrade ==
    \E s \in StudentIds, m \in ModuleIds, grade \in AverageGradeArgs :
        SetGradeCall(s, m, grade) /\ UNCHANGED <<lastSet, view>>

(***************************************************************************)
(* The store the averages are computed from: modules are added and         *)
(* deleted, grades are set for any student id and module id.               *)
(***************************************************************************)
NextAverages ==
    \/ AverageAddModule
    \/ DeleteModule
    \/ AverageSetGrade

SpecAverages == Init /\ [][NextAverages]_vars

(***************************************************************************)
(* The grades array under any sequence of setGrade calls.                  *)
(***************************************************************************)
NextGrades == SetGradeTracked

SpecGrades == Init /\ [][NextGrades]_vars

\* the number of records of a grades or absences array for the pair (s, m)
RecordsOf(seq, s, m) ==
    Cardinality({i \in 1..Len(seq) : seq[i].studentId = s /\ seq[i].moduleId = m})

RejectedGradeTexts == {"abc", "-1", "21"}

\* the text of the grade stored for (s, m), '' when there is none
StoredGradeText(s, m) ==
    IF RecordsOf(grades, s, m) = 0 THEN ""
    ELSE NumberToString(grades[CHOOSE i \in 1..Len(grades) :
                                grades[i].studentId = s /\ grades[i].moduleId = m].grade)

\* C4: every stored grade is in [0, 20], and a handleGradeChange whose input is
\* non-numeric or outside [0, 20] leaves the grades unchanged and resets the
\* input to the grade stored before.
C4_GradesInRange ==
    /\ [](\A i \in 1..Len(grades) : grades[i].grade >= 0 /\ grades[i].grade <= 20)
    /\ [][\A s \in StudentIds, m \in ModuleIds, text \in RejectedGradeTexts :
            HandleGradeChangeCall(s, m, text) =>
                grades' = grades /\ field' = StoredGradeText(s, m)]_vars

\* C4 witness: an input was rejected and the field shows the stored grade 20 again
C4_Witness ==
    /\ call.op = "handleGradeChange"
    /\ call.ret = "rejected"
    /\ field = "20"
    /\ \E i \in 1..Len(grades) : grades[i].grade = 20

\* the absence texts that stand for no absence, and those that are rejected
ZeroAbsenceTexts == {"", "0"}
RejectedAbsenceTexts == {"abc", "-1"}

SameNameIgnoringCase(a, b) == a = b \/ {a, b} \subseteq {"Math", "math"}

\* C6: no two stored modules have names equal ignoring case; an addModule or
\* updateModule that would create such a pair returns false and leaves the
\* modules unchanged.
C6_ModuleNamesUnique ==
    /\ [](\A i, j \in 1..Len(modules) :
            i # j => ~SameNameIgnoringCase(modules[i].name, modules[j].name))
    /\ [][\A module \in ModuleEdits :
            /\ (/\ AddModuleCall(module)
                /\ \E i \in 1..Len(modules) : SameNameIgnoringCase(modules[i].name, module.name))
               => call'.ret = "false" /\ modules' = modules
            /\ \A id \in ModuleIds :
                (/\ UpdateModuleCall(id, module)
                 /\ \E i \in 1..Len(modules) :
                        /\ modules[i].id # id
                        /\ SameNameIgnoringCase(modules[i].name, module.name))
                => call'.ret = "false" /\ modules' = modules]_vars

\* C6 witness: two modules are stored and an updateModule was refused
C6_Witness ==
    /\ call.op = "updateModule"
    /\ call.ret = "false"
    /\ Len(modules) = 2
    /\ moduleExists(modules, call.mid)

\* C7: no two stored students share a cin; addStudent with an existing cin, and
\* updateStudent with an unknown id or with the cin of another student, return
\* false and leave the students unchanged.
C7_CinUnique ==
    /\ [](\A i, j \in 1..Len(students) : i # j => students[i].cin # students[j].cin)
    /\ [][\A student \in StudentEdits :
            /\ (/\ AddStudentCall(student)
                /\ \E i \in 1..Len(students) : students[i].cin = student.cin)
               => call'.ret = "false" /\ students' = students
            /\ \A id \in StudentIds :
                (/\ UpdateStudentCall(id, student)
                 /\ \/ \A i \in 1..Len(students) : students[i].id # id
                    \/ \E i \in 1..Len(students) :
                            students[i].id # id /\ students[i].cin = student.cin)
                => call'.ret = "false" /\ students' = students]_vars

\* C7 witness: two students are stored and an updateStudent of one of them was refused
C7_Witness ==
    /\ call.op = "updateStudent"
    /\ call.ret = "false"
    /\ Len(students) = 2
    /\ studentExists(students, call.sid)

\* the coefficient texts that are missing, non-numeric, zero or negative
BadCoefficientTexts == {"", "abc", "0", "-1"}

\* C8: every stored module has a coefficient > 0, and a submission of the module
\* form with a missing, non-numeric, zero or negative coefficient changes no
\* stored module.
C8_CoefficientPositive ==
    /\ [](\A i \in 1..Len(modules) : modules[i].coefficient > 0)
    /\ [][\A nameText \in NameTexts, coefficientText \in BadCoefficientTexts :
            ModuleFormSubmitCall(nameText, coefficientText) => modules' = modules]_vars

\* C8 witness: a submission in edit mode was stopped by validation; two modules are stored
C8_Witness ==
    /\ call.op = "moduleFormSubmit"
    /\ call.ret = "invalid"
    /\ editingModuleId # 0
    /\ Len(modules) = 2

\* the stored modules (by index) for which student s has a recorded grade
GradedModules(s) == {i \in 1..Len(modules) : RecordsOf(grades, s, modules[i].id) > 0}

\* the grade recorded for the pair (s, m)
RecordedGrade(s, m) ==
    grades[CHOOSE k \in 1..Len(grades) : grades[k].studentId = s /\ grades[k].moduleId = m].grade

\* sum of grade x coefficient, and of coefficient, over a set of stored modules
RECURSIVE WeightedSum(_, _)
WeightedSum(s, S) ==
    IF S = {} THEN 0
    ELSE LET i == CHOOSE x \in S : TRUE
         IN  RecordedGrade(s, modules[i].id) * modules[i].coefficient + WeightedSum(s, S \ {i})

RECURSIVE CoefficientSum(_)
CoefficientSum(S) ==
    IF S = {} THEN 0
    ELSE LET i == CHOOSE x \in S : TRUE
         IN  modules[i].coefficient + CoefficientSum(S \ {i})

\* the value v is the quotient points / coefficients
IsQuotient(v, points, coefficients) ==
    /\ v.t = "num"
    /\ v.den > 0 /\ coefficients > 0
    /\ v.num * coefficients = points * v.den

\* C9: for a student with a grade for at least one stored module, both
\* calculateStudentAverage functions return sum(grade x coefficient) /
\* sum(coefficient) over the stored modules the student has a grade for.
C9_WeightedAverage ==
    \A s \in StudentIds :
        GradedModules(s) # {} =>
            /\ IsQuotient(calculateStudentAverage(modules, grades, s),
                          WeightedSum(s, GradedModules(s)), CoefficientSum(GradedModules(s)))
            /\ IsQuotient(resultsStudentAverage(modules, grades, s).average,
                          WeightedSum(s, GradedModules(s)), CoefficientSum(GradedModules(s)))

\* C9 witness: student 1 has the grade 20 for a module of coefficient 2 and no
\* grade for the other stored module, of coefficient 1; the average is 40 / 2
C9_Witness ==
    /\ Len(modules) = 2
    /\ Cardinality(GradedModules(1)) = 1
    /\ \E i \in GradedModules(1) : modules[i].coefficient = 2
    /\ \E i \in 1..Len(modules) : i \notin GradedModules(1) /\ modules[i].coefficient = 1
    /\ calculateStudentAverage(modules, grades, 1) = Quotient(40, 2)

\* C10: both calculateStudentAverage functions return null exactly when the
\* student has no grade for any stored module.
C10_NullIffNoGrade ==
    \A s \in StudentIds :
        /\ calculateStudentAverage(modules, grades, s) = JNull <=> GradedModules(s) = {}
        /\ resultsStudentAverage(modules, grades, s).average = JNull <=> GradedModules(s) = {}

\* C10 witness: a module is stored, student 1 has a grade, but only for a module
\* that is not stored, and the average is null
C10_Witness ==
    /\ Len(modules) = 1
    /\ \E k \in 1..Len(grades) :
          grades[k].studentId = 1 /\ ~moduleExists(modules, grades[k].moduleId)
    /\ GradedModules(1) = {}
    /\ calculateStudentAverage(modules, grades, 1) = JNull

(***************************************************************************)
(* The module form and the grade inputs together: students are added,      *)
(* modules are submitted through the form, grades are typed into the table.*)
(***************************************************************************)
\* the texts typed into the module form and into a grade input
FormNameTexts == {"Math", "Phys"}
FormCoefficientTexts == {"0", "1", "2"}
FormGradeTexts == {"", "0", " 20 ", "21"}

FormsModuleSubmit ==
    \E nameText \in FormNameTexts, coefficientText \in FormCoefficientTexts :
        ModuleFormSubmitCall(nameText, coefficientText)

FormsGradeChange ==
    \E s \in StudentIds, m \in ModuleIds, text \in FormGradeTexts : HandleGradeChangeCall(s, m, text)

NextForms ==
    \/ StoreAddStudent
    \/ FormsModuleSubmit
    \/ FormsGradeChange

SpecForms == Init /\ [][NextForms]_vars

\* C11: in every state reached through the module form and the grade inputs,
\* every average calculateStudentAverage returns that is not null lies in [0, 20].
C11_AverageInRange ==
    \A s \in StudentIds :
        LET average == calculateStudentAverage(modules, grades, s)
        IN  average # JNull =>
                /\ average.den > 0
                /\ 0 <= average.num
                /\ average.num <= 20 * average.den

\* C11 witness: student 1 has the grade 20 for two modules of coefficients 2 and 1,
\* the average is 60 / 3, the upper end of the range
C11_Witness ==
    /\ call.op = "handleGradeChange"
    /\ Len(modules) = 2
    /\ modules[1].coefficient # modules[2].coefficient
    /\ calculateStudentAverage(modules, grades, 1) = Quotient(60, 3)

(***************************************************************************)
(* js/dashboard.js and js/results.js: getMention.  The average is a        *)
(* quotient num / den with den > 0.                                        *)
(***************************************************************************)
\* largest denominator of the averages getMention is given
MaxDenominator == 3

\* average >= n, for an integer n
AtLeast(average, n) == average.num >= n * average.den

\* getMention with the bounds of its bands exclusive ("average > 16")
getMention_exclusive(average) ==
    IF average.num > 16 * average.den THEN "Très Bien"
    ELSE IF average.num > 14 * average.den THEN "Bien"
    ELSE IF average.num > 12 * average.den THEN "Assez Bien"
    ELSE IF average.num > 10 * average.den THEN "Passable"
    ELSE "Ajourné"

\* getMention(average) of dashboard.js
getMention(average) ==
    IF AtLeast(average, 16) THEN "Très Bien"
    ELSE IF AtLeast(average, 14) THEN "Bien"
    ELSE IF AtLeast(average, 12) THEN "Assez Bien"
    ELSE IF AtLeast(average, 10) THEN "Passable"
    ELSE "Ajourné"

\* getMention(average) of results.js: {text, class}
resultsGetMention(average) ==
    IF AtLeast(average, 16) THEN [text |-> "Très Bien", class |-> "badge-success"]
    ELSE IF AtLeast(average, 14) THEN [text |-> "Bien", class |-> "badge-success"]
    ELSE IF AtLeast(average, 12) THEN [text |-> "Assez Bien", class |-> "badge-info"]
    ELSE IF AtLeast(average, 10) THEN [text |-> "Passable", class |-> "badge-warning"]
    ELSE [text |-> "Ajourné", class |-> "badge-danger"]

\* the averages getMention is given: from -1 to 21 in steps of 1 / den
MentionAverages ==
    {Quotient(num, den) : num \in (0 - MaxDenominator)..(21 * MaxDenominator), den \in 1..MaxDenominator}

\* getMention(average), by both pages
GetMention ==
    \E average \in MentionAverages :
        /\ average.num >= 0 - average.den
        /\ average.num <= 21 * average.den
        /\ view' = [op |-> "getMention", average |-> average,
                    mention |-> getMention(average), badge |-> resultsGetMention(average)]
        /\ UNCHANGED <<students, modules, grades, absences, call, editingModuleId, field, lastSet, editingStudentId, studentCIN>>

NextMention == GetMention

SpecMention == Init /\ [][NextMention]_vars

\* C12: getMention returns exactly one of the five bands for every numeric
\* average: 'Très Bien' exactly when average >= 16, 'Bien' when 14 <= average < 16,
\* 'Assez Bien' when 12 <= average < 14, 'Passable' when 10 <= average < 12 and
\* 'Ajourné' when average < 10, negative averages included; results.js agrees.
C12_MentionPartition ==
    view.op = "getMention" =>
        LET num == view.average.num
            den == view.average.den
        IN  /\ view.mention \in {"Très Bien", "Bien", "Assez Bien", "Passable", "Ajourné"}
            /\ view.mention = "Très Bien" <=> num >= 16 * den
            /\ view.mention = "Bien" <=> (num >= 14 * den /\ num < 16 * den)
            /\ view.mention = "Assez Bien" <=> (num >= 12 * den /\ num < 14 * den)
            /\ view.mention = "Passable" <=> (num >= 10 * den /\ num < 12 * den)
            /\ view.mention = "Ajourné" <=> num < 10 * den
            /\ view.badge.text = view.mention

\* C12 witness: the average is exactly 14, as 28 / 2, and the mention is 'Bien'
C12_Witness ==
    /\ view.op = "getMention"
    /\ view.average = Quotient(28, 2)
    /\ view.mention = "Bien"

(***************************************************************************)
(* js/dashboard.js: the statistics of the cohort.                          *)
(***************************************************************************)
\* a < b for two averages
Less(a, b) == a.num * b.den < b.num * a.den

\* Math.round(num / den) for den > 0: the nearest integer, a half going up
Round(num, den) == (2 * num + den) \div (2 * den)

\* getAllStudentsWithAverages(): the students that have an average, each with its average
getAllStudentsWithAverages(ss, ms, gs) ==
    SelectSeq([i \in 1..Len(ss) |->
                  [id |-> ss[i].id, cin |-> ss[i].cin, name |-> ss[i].name,
                   average |-> calculateStudentAverage(ms, gs, ss[i].id)]],
              LAMBDA s : s.average # JNull)

\* the reduce of findWorstStudent from index i on
RECURSIVE reduceWorst(_, _, _)
reduceWorst(list, i, worst) ==
    IF i > Len(list) THEN worst
    ELSE reduceWorst(list, i + 1, IF Less(list[i].average, worst.average) THEN list[i] ELSE worst)

\* findWorstStudent(): null or the student with its average
findWorstStudent(ss, ms, gs) ==
    LET studentsWithAverages == getAllStudentsWithAverages(ss, ms, gs)
    IN  IF Len(studentsWithAverages) = 0 THEN JNull
        ELSE reduceWorst(studentsWithAverages, 2, studentsWithAverages[1])

\* the reduce of findBestStudent from index i on
RECURSIVE reduceBest(_, _, _)
reduceBest(list, i, best) ==
    IF i > Len(list) THEN best
    ELSE reduceBest(list, i + 1, IF Less(best.average, list[i].average) THEN list[i] ELSE best)

\* the reduce with "current.average >= best.average": the last of several equal students wins
RECURSIVE reduceBest_lastOnTie(_, _, _)
reduceBest_lastOnTie(list, i, best) ==
    IF i > Len(list) THEN best
    ELSE reduceBest_lastOnTie(list, i + 1,
                              IF ~Less(list[i].average, best.average) THEN list[i] ELSE best)

\* findBestStudent with "current.average >= best.average"
findBestStudent_lastOnTie(ss, ms, gs) ==
    LET studentsWithAverages == getAllStudentsWithAverages(ss, ms, gs)
    IN  IF Len(studentsWithAverages) = 0 THEN JNull
        ELSE reduceBest_lastOnTie(studentsWithAverages, 2, studentsWithAverages[1])

\* findBestStudent(): null or the student with its average
findBestStudent(ss, ms, gs) ==
    LET studentsWithAverages == getAllStudentsWithAverages(ss, ms, gs)
    IN  IF Len(studentsWithAverages) = 0 THEN JNull
        ELSE reduceBest(studentsWithAverages, 2, studentsWithAverages[1])

\* the forEach of the earlier findBestStudent from index i on; acc is [bestStudent, bestAverage]
RECURSIVE bestLoop(_, _, _, _, _)
bestLoop(ss, ms, gs, i, acc) ==
    IF i > Len(ss) THEN acc
    ELSE LET average == calculateStudentAverage(ms, gs, ss[i].id)
         IN  bestLoop(ss, ms, gs, i + 1,
                 IF average # JNull /\ Less(acc.bestAverage, average)
                 THEN [bestStudent |-> [id |-> ss[i].id, cin |-> ss[i].cin, name |-> ss[i].name,
                                        average |-> average],
                       bestAverage |-> average]
                 ELSE acc)

\* the earlier findBestStudent(), which starts from bestAverage = -1
earlierFindBestStudent(ss, ms, gs) ==
    IF Len(ss) = 0 THEN JNull
    ELSE bestLoop(ss, ms, gs, 1, [bestStudent |-> JNull, bestAverage |-> Quotient(0 - 1, 1)]).bestStudent

\* the forEach of calculateSuccessRate: passedCount after the students from index i on
RECURSIVE countPassed(_, _, _, _, _)
countPassed(ss, ms, gs, i, passedCount) ==
    IF i > Len(ss) THEN passedCount
    ELSE LET average == calculateStudentAverage(ms, gs, ss[i].id)
         IN  countPassed(ss, ms, gs, i + 1,
                 IF average # JNull /\ AtLeast(average, 10) THEN passedCount + 1 ELSE passedCount)

\* calculateSuccessRate dividing by the number of students that have an average
calculateSuccessRate_averagedOnly(ss, ms, gs) ==
    IF Len(getAllStudentsWithAverages(ss, ms, gs)) = 0 THEN 0
    ELSE Round(countPassed(ss, ms, gs, 1, 0) * 100, Len(getAllStudentsWithAverages(ss, ms, gs)))

\* calculateSuccessRate()
calculateSuccessRate(ss, ms, gs) ==
    IF Len(ss) = 0 THEN 0
    ELSE Round(countPassed(ss, ms, gs, 1, 0) * 100, Len(ss))

\* Array.prototype.sort((a, b) => b.average - a.average): descending, equal elements keep
\* their order; the last element is inserted into the sorted rest
RECURSIVE sortByAverage(_)
sortByAverage(list) ==
    IF Len(list) <= 1 THEN list
    ELSE LET sorted == sortByAverage(SubSeq(list, 1, Len(list) - 1))
             x == list[Len(list)]
             k == Cardinality({i \in 1..Len(sorted) : ~Less(sorted[i].average, x.average)})
         IN  SubSeq(sorted, 1, k) \o <<x>> \o SubSeq(sorted, k + 1, Len(sorted))

\* displayMyRanking with the percentile taken as (totalStudents - myRank) / totalStudents
displayMyRanking_noPlusOne(ss, ms, gs, studentId) ==
    LET studentsWithAverages == getAllStudentsWithAverages(ss, ms, gs)
        sorted == sortByAverage(studentsWithAverages)
        myRank == IdIndex(sorted, studentId)
        totalStudents == Len(sorted)
    IN  IF Len(studentsWithAverages) = 0
        THEN [shown |-> "empty", rank |-> 0, total |-> 0, percentile |-> 0]
        ELSE [shown |-> "ranking", rank |-> myRank, total |-> totalStudents,
              percentile |-> Round((totalStudents - myRank) * 100, totalStudents)]

\* displayMyRanking() for the student the user is linked to: what the container shows;
\* findIndex(...) + 1 is IdIndex, of which 0 stands for "not found"
displayMyRanking(ss, ms, gs, studentId) ==
    LET studentsWithAverages == getAllStudentsWithAverages(ss, ms, gs)
        sorted == sortByAverage(studentsWithAverages)
        myRank == IdIndex(sorted, studentId)
        totalStudents == Len(sorted)
    IN  IF Len(studentsWithAverages) = 0
        THEN [shown |-> "empty", rank |-> 0, total |-> 0, percentile |-> 0]
        ELSE [shown |-> "ranking", rank |-> myRank, total |-> totalStudents,
              percentile |-> Round((totalStudents - myRank + 1) * 100, totalStudents)]

\* updateAssessmentChart counting every grade record, of whatever module
assessmentCompletion_allGrades(ss, ms, gs) ==
    [i \in 1..Len(ms) |->
        [name |-> ms[i].name,
         percentage |-> IF Len(ss) > 0 THEN Round(Len(gs) * 100, Len(ss)) ELSE 0]]

\* updateAssessmentChart() for a teacher: completionData, one {name, percentage} per module
assessmentCompletion(ss, ms, gs) ==
    [i \in 1..Len(ms) |->
        LET moduleGrades == SelectSeq(gs, LAMBDA g : g.moduleId = ms[i].id)
            totalPossible == Len(ss)
            completed == Len(moduleGrades)
        IN  [name |-> ms[i].name,
             percentage |-> IF totalPossible > 0 THEN Round(completed * 100, totalPossible) ELSE 0]]

(***************************************************************************)
(* The cohort the statistics are computed from: students enrol one after   *)
(* the other, the modules Math and Phys are added, grades are set in the   *)
(* cells of the grades table.                                              *)
(***************************************************************************)
\* largest number of students of the cohort, and of grade records
MaxCohort == 3
MaxCohortGrades == 3

CohortIds == 1..MaxCohort
CohortCins == <<"AB12345", "CD67890", "EF24680", "GH13579", "IJ97531">>
CohortModules ==
    <<[id |-> 0, name |-> "Math", coefficient |-> 2], [id |-> 0, name |-> "Phys", coefficient |-> 1]>>
CohortGradeArgs == {JNull, Num(8), Num(10)}

\* addStudent for the next student that enrols
CohortAddStudent ==
    LET student == [id |-> 0, cin |-> CohortCins[Len(students) + 1], name |-> "Ali"]
        r == addStudent(students, student)
    IN  /\ Len(students) < MaxCohort
        /\ Len(students) < Len(CohortCins)
        /\ students' = r.students
        /\ call' = [op |-> "addStudent", sid |-> 0, mid |-> 0, ret |-> Bool(r.ret)]
        /\ UNCHANGED <<modules, grades, absences, editingModuleId, field, lastSet, view, editingStudentId, studentCIN>>

\* addModule for the next module of the programme
CohortAddModule ==
    /\ Len(modules) < Len(CohortModules)
    /\ AddModuleCall(CohortModules[Len(modules) + 1])

\* setGrade for a cell of the grades table
CohortSetGrade ==
    \E s \in CohortIds, m \in ModuleIds, grade \in CohortGradeArgs :
        LET gs == setGrade(grades, s, m, grade)
        IN  /\ Row(s, m)
            /\ Len(gs) <= MaxCohortGrades
            /\ grades' = gs
            /\ call' = [op |-> "setGrade", sid |-> 0, mid |-> 0, ret |-> "undefined"]
            /\ UNCHANGED <<students, modules, absences, editingModuleId, field, lastSet, view, editingStudentId, studentCIN>>

NextCohort ==
    \/ CohortAddStudent
    \/ CohortAddModule
    \/ CohortSetGrade

SpecCohort == Init /\ [][NextCohort]_vars

\* the average of the i-th stored student
AverageOf(i) == calculateStudentAverage(modules, grades, students[i].id)

\* the stored students (by index) that have an average
Averaged == {i \in 1..Len(students) : AverageOf(i) # JNull}

\* r is the integer nearest to num / den, a half going up
IsRounded(r, num, den) ==
    /\ den > 0
    /\ 2 * r * den - den <= 2 * num
    /\ 2 * num < 2 * r * den + den

\* C13: calculateSuccessRate returns 0 when no student is stored, and otherwise
\* round(passedCount / cohortSize x 100), passedCount the number of stored students
\* whose average is present and >= 10, cohortSize the number of all stored students.
C13_SuccessRate ==
    LET passedCount == Cardinality({i \in Averaged : AverageOf(i).num >= 10 * AverageOf(i).den})
        rate == calculateSuccessRate(students, modules, grades)
    IN  IF Len(students) = 0 THEN rate = 0
        ELSE IsRounded(rate, passedCount * 100, Len(students))

\* C13 witness: of three students one has the average 10, one an average below 10
\* and one no average; the rate is 33
C13_Witness ==
    /\ Len(students) = 3
    /\ Cardinality(Averaged) = 2
    /\ \E i \in Averaged : AverageOf(i).num = 10 * AverageOf(i).den
    /\ \E i \in Averaged : AverageOf(i).num < 10 * AverageOf(i).den
    /\ calculateSuccessRate(students, modules, grades) = 33

\* the student x, with its average, is the i-th stored student
IsStudent(x, i) == x # JNull /\ x.id = students[i].id /\ x.average = AverageOf(i)

\* C14: when no student has an average findBestStudent and findWorstStudent return
\* null; otherwise findBestStudent returns the first stored student whose average
\* is the maximum and findWorstStudent the first stored student whose average is
\* the minimum, over the students that have an average; the earlier findBestStudent
\* returns the same student.
C14_BestAndWorst ==
    LET best == findBestStudent(students, modules, grades)
        worst == findWorstStudent(students, modules, grades)
        earlier == earlierFindBestStudent(students, modules, grades)
    IN  IF Averaged = {} THEN best = JNull /\ worst = JNull /\ earlier = JNull
        ELSE /\ \E i \in Averaged :
                    /\ IsStudent(best, i)
                    /\ \A j \in Averaged : ~Less(AverageOf(i), AverageOf(j))
                    /\ \A j \in Averaged : j < i => Less(AverageOf(j), AverageOf(i))
             /\ \E i \in Averaged :
                    /\ IsStudent(worst, i)
                    /\ \A j \in Averaged : ~Less(AverageOf(j), AverageOf(i))
                    /\ \A j \in Averaged : j < i => Less(AverageOf(i), AverageOf(j))
             /\ earlier = best

\* C14 witness: three students have an average; the first two are equal at the top,
\* as 20 / 2 and 30 / 3, the third is below, and the first student is the best
C14_Witness ==
    /\ Len(students) = 3
    /\ Averaged = {1, 2, 3}
    /\ AverageOf(1) # AverageOf(2)
    /\ ~Less(AverageOf(1), AverageOf(2)) /\ ~Less(AverageOf(2), AverageOf(1))
    /\ Less(AverageOf(3), AverageOf(1))
    /\ findBestStudent(students, modules, grades).id = students[1].id
    /\ findWorstStudent(students, modules, grades).id = students[3].id

\* C15: a stored student without an average is never the student findBestStudent
\* or findWorstStudent returns, and displayMyRanking for such a student shows no
\* rank and no percentile.
C15_UnaveragedUnranked ==
    \A i \in 1..Len(students) :
        AverageOf(i) = JNull =>
            LET best == findBestStudent(students, modules, grades)
                worst == findWorstStudent(students, modules, grades)
            IN  /\ best # JNull => best.id # students[i].id
                /\ worst # JNull => worst.id # students[i].id
                /\ displayMyRanking(students, modules, grades, students[i].id).shown # "ranking"

\* C16: for a stored student that has an average displayMyRanking shows the
\* 1-based position of the student in the averaged students sorted by descending
\* average, a rank in 1..N for N averaged students, and the percentile
\* round((N - rank + 1) / N x 100), an integer in 1..100 that is 100 at rank 1.
C16_RankAndPercentile ==
    LET sorted == sortByAverage(getAllStudentsWithAverages(students, modules, grades))
        N == Cardinality(Averaged)
    IN  /\ Len(sorted) = N
        /\ {sorted[k].id : k \in 1..N} = {students[i].id : i \in Averaged}
        /\ \A k, l \in 1..N : k < l => ~Less(sorted[k].average, sorted[l].average)
        /\ \A i \in Averaged :
              LET shown == displayMyRanking(students, modules, grades, students[i].id)
              IN  /\ shown.shown = "ranking"
                  /\ shown.total = N
                  /\ shown.rank \in 1..N
                  /\ sorted[shown.rank].id = students[i].id
                  /\ sorted[shown.rank].average = AverageOf(i)
                  /\ IsRounded(shown.percentile, (N - shown.rank + 1) * 100, N)
                  /\ shown.percentile \in 1..100
                  /\ shown.rank = 1 => shown.percentile = 100

\* C16 witness: three students have an average, the second stored student has the
\* highest and the third the rank 2 with the percentile 67
C16_Witness ==
    /\ Averaged = {1, 2, 3}
    /\ displayMyRanking(students, modules, grades, students[2].id).rank = 1
    /\ displayMyRanking(students, modules, grades, students[3].id).rank = 2
    /\ displayMyRanking(students, modules, grades, students[3].id).percentile = 67
    /\ displayMyRanking(students, modules, grades, students[1].id).percentile = 33

\* C19: for every stored module the teacher's completion percentage is 0 when no
\* student is stored and otherwise round(gradedCount / cohortSize x 100),
\* gradedCount the number of grade records of the module, cohortSize the number of
\* stored students.
C19_Completion ==
    LET completionData == assessmentCompletion(students, modules, grades)
    IN  /\ Len(completionData) = Len(modules)
        /\ \A k \in 1..Len(modules) :
              LET gradedCount ==
                      Cardinality({i \in 1..Len(grades) : grades[i].moduleId = modules[k].id})
              IN  /\ completionData[k].name = modules[k].name
                  /\ IF Len(students) = 0 THEN completionData[k].percentage = 0
                     ELSE IsRounded(completionData[k].percentage, gradedCount * 100, Len(students))

\* C19 witness: three students; one module has two grades, the other one grade
C19_Witness ==
    /\ Len(students) = 3
    /\ Len(modules) = 2
    /\ Len(grades) = 3
    /\ {assessmentCompletion(students, modules, grades)[k].percentage : k \in 1..2} = {33, 67}

(***************************************************************************)
(* The grade distribution: getGradeDistribution of the earlier             *)
(* dashboard.js and displayGradeBarChart of js/dashboard.js.               *)
(***************************************************************************)
\* the if / else-if chain of getGradeDistribution with "average > 14" for its second test
distributionBand_above14(average) ==
    IF AtLeast(average, 16) THEN "excellent"
    ELSE IF average.num > 14 * average.den THEN "veryGood"
    ELSE IF AtLeast(average, 12) THEN "good"
    ELSE IF AtLeast(average, 10) THEN "pass"
    ELSE "fail"

\* the if / else-if chain of getGradeDistribution: the counter that is incremented
distributionBand(average) ==
    IF AtLeast(average, 16) THEN "excellent"
    ELSE IF AtLeast(average, 14) THEN "veryGood"
    ELSE IF AtLeast(average, 12) THEN "good"
    ELSE IF AtLeast(average, 10) THEN "pass"
    ELSE "fail"

\* the forEach of getGradeDistribution: the distribution after the students from index i on
RECURSIVE distributionLoop(_, _, _, _, _)
distributionLoop(ss, ms, gs, i, distribution) ==
    IF i > Len(ss) THEN distribution
    ELSE LET average == calculateStudentAverage(ms, gs, ss[i].id)
         IN  distributionLoop(ss, ms, gs, i + 1,
                 IF average # JNull
                 THEN [distribution EXCEPT ![distributionBand(average)] = @ + 1]
                 ELSE distribution)

\* getGradeDistribution(): {excellent, veryGood, good, pass, fail}
getGradeDistribution(ss, ms, gs) ==
    distributionLoop(ss, ms, gs, 1,
                     [excellent |-> 0, veryGood |-> 0, good |-> 0, pass |-> 0, fail |-> 0])

\* the ranges of displayGradeBarChart
barChartRanges ==
    <<[label |-> "0-4", min |-> 0, max |-> 4], [label |-> "5-9", min |-> 5, max |-> 9],
      [label |-> "10-12", min |-> 10, max |-> 12], [label |-> "13-15", min |-> 13, max |-> 15],
      [label |-> "16-18", min |-> 16, max |-> 18], [label |-> "19-20", min |-> 19, max |-> 20]>>

\* student.average >= range.min && student.average <= range.max
InRange(average, range) ==
    average.num >= range.min * average.den /\ average.num <= range.max * average.den

\* displayGradeBarChart(): the count of each range, or the empty state
displayGradeBarChart(ss, ms, gs) ==
    LET studentsWithAverages == getAllStudentsWithAverages(ss, ms, gs)
    IN  IF Len(studentsWithAverages) = 0
        THEN [shown |-> "empty", counts |-> [k \in 1..Len(barChartRanges) |-> 0]]
        ELSE [shown |-> "chart",
              counts |-> [k \in 1..Len(barChartRanges) |->
                            Cardinality({i \in 1..Len(studentsWithAverages) :
                                InRange(studentsWithAverages[i].average, barChartRanges[k])})]]

\* the grades of the distribution: they give averages in each of the five bands
DistributionGradeArgs == {JNull, Num(0), Num(10), Num(14), Num(20)}

\* setGrade for a cell of the grades table
DistributionSetGrade ==
    \E s \in CohortIds, m \in ModuleIds, grade \in DistributionGradeArgs :
        Row(s, m) /\ SetGradeCall(s, m, grade) /\ UNCHANGED <<lastSet, view>>

NextDistribution ==
    \/ CohortAddStudent
    \/ CohortAddModule
    \/ DistributionSetGrade

SpecDistribution == Init /\ [][NextDistribution]_vars

\* the averaged students whose average getMention puts into the band of this name
InBand(mention) == {i \in Averaged : getMention(AverageOf(i)) = mention}

\* C17: the five counts of getGradeDistribution sum to the number of students
\* that have an average, and each count is the number of those students whose
\* average getMention puts into the band of that count.
C17_DistributionPartition ==
    LET d == getGradeDistribution(students, modules, grades)
    IN  /\ d.excellent + d.veryGood + d.good + d.pass + d.fail = Cardinality(Averaged)
        /\ d.excellent = Cardinality(InBand("Très Bien"))
        /\ d.veryGood = Cardinality(InBand("Bien"))
        /\ d.good = Cardinality(InBand("Assez Bien"))
        /\ d.pass = Cardinality(InBand("Passable"))
        /\ d.fail = Cardinality(InBand("Ajourné"))

\* C17 witness: of three students one has the average 14 exactly, one an average
\* below 10 and the third no average
C17_Witness ==
    /\ Len(students) = 3
    /\ Cardinality(Averaged) = 2
    /\ \E i \in Averaged : AverageOf(i).num = 14 * AverageOf(i).den
    /\ getGradeDistribution(students, modules, grades).veryGood = 1
    /\ getGradeDistribution(students, modules, grades).fail = 1

\* the ranges of the bar chart that hold the average of the i-th stored student
RangesOf(i) == {k \in 1..Len(barChartRanges) : InRange(AverageOf(i), barChartRanges[k])}

\* C18: when displayGradeBarChart shows its chart, every student that has an
\* average is counted in exactly one range, the counts of the ranges sum to the
\* number of those students, and two students are in the same range exactly when
\* getMention gives them the same band.
C18_BarChartPartition ==
    LET chart == displayGradeBarChart(students, modules, grades)
    IN  chart.shown = "chart" =>
            /\ \A i \in Averaged : Cardinality(RangesOf(i)) = 1
            /\ chart.counts[1] + chart.counts[2] + chart.counts[3] + chart.counts[4]
                   + chart.counts[5] + chart.counts[6] = Cardinality(Averaged)
            /\ \A i, j \in Averaged :
                  RangesOf(i) = RangesOf(j) <=> getMention(AverageOf(i)) = getMention(AverageOf(j))

(***************************************************************************)
(* js/data.js: the absences of a student and their total.                  *)
(***************************************************************************)
\* getStudentAbsences(studentId): the set of module ids that are keys of the object
studentAbsenceKeys(as, studentId) ==
    {as[i].moduleId : i \in {j \in 1..Len(as) : as[j].studentId = studentId}}

\* getStudentAbsences(studentId)[moduleId]: a later record of the array overwrites an earlier one
studentAbsenceOf(as, studentId, moduleId) ==
    LET idx == {j \in 1..Len(as) : as[j].studentId = studentId /\ as[j].moduleId = moduleId}
    IN  as[CHOOSE j \in idx : \A k \in idx : k <= j].count

\* Object.values(studentAbsences).reduce((sum, count) => sum + count, 0) over the keys left
RECURSIVE sumAbsences(_, _, _)
sumAbsences(as, studentId, keys) ==
    IF keys = {} THEN 0
    ELSE LET moduleId == CHOOSE k \in keys : \A l \in keys : k <= l
         IN  studentAbsenceOf(as, studentId, moduleId) + sumAbsences(as, studentId, keys \ {moduleId})

\* getTotalAbsences counting the records of the student instead of adding their counts
getTotalAbsences_countRecords(as, studentId) == Cardinality(studentAbsenceKeys(as, studentId))

\* getTotalAbsences(studentId)
getTotalAbsences(as, studentId) == sumAbsences(as, studentId, studentAbsenceKeys(as, studentId))

\* the count arguments of setAbsenceCount when totals are looked at
TotalCountArgs == {0, 1, 2}

\* setAbsenceCount for a cell of the grades table, with getTotalAbsences of every
\* student read before and after it
TotalsSetAbsenceCount ==
    \E s \in StudentIds, m \in ModuleIds, count \in TotalCountArgs :
        LET as == setAbsenceCount(absences, s, m, count)
        IN  /\ Row(s, m)
            /\ Len(as) <= MaxAbsences
            /\ absences' = as
            /\ call' = [op |-> "setAbsenceCount", sid |-> 0, mid |-> 0, ret |-> "undefined"]
            /\ view' = [op |-> "setAbsenceCount", studentId |-> s, count |-> count,
                        stored |-> getAbsenceCount(absences, s, m),
                        before |-> [t \in StudentIds |-> getTotalAbsences(absences, t)],
                        after |-> [t \in StudentIds |-> getTotalAbsences(as, t)]]
            /\ UNCHANGED <<students, modules, grades, editingModuleId, field, lastSet, editingStudentId, studentCIN>>

NextAbsenceTotals ==
    \/ StoreAddStudent
    \/ StoreAddModule
    \/ TotalsSetAbsenceCount

SpecAbsenceTotals == Init /\ [][NextAbsenceTotals]_vars

\* the sum of getAbsenceCount(s, m) over a set of module ids
RECURSIVE CountSum(_, _)
CountSum(s, S) ==
    IF S = {} THEN 0
    ELSE LET m == CHOOSE x \in S : TRUE
         IN  getAbsenceCount(absences, s, m) + CountSum(s, S \ {m})

\* C20: getTotalAbsences(s) is the sum over all module ids of the absence count
\* of s, 0 where there is no record; setAbsenceCount(s, m, 0) lowers the total of
\* s by the count stored for (s, m) before, which is 0 when there was no record,
\* and changes the total of no other student.
C20_TotalAbsences ==
    /\ \A s \in StudentIds : getTotalAbsences(absences, s) = CountSum(s, ModuleIds)
    /\ (view.op = "setAbsenceCount" /\ view.count = 0) =>
           /\ \A t \in StudentIds :
                 view.after[t] = view.before[t] - (IF t = view.studentId THEN view.stored ELSE 0)

\* C20 witness: student 1 had the counts 2 and 1 for two modules, the count 2 was
\* set to 0, and the total went from 3 to 1
C20_Witness ==
    /\ call.op = "setAbsenceCount"
    /\ view.op = "setAbsenceCount"
    /\ view.count = 0
    /\ view.stored = 2
    /\ view.before[view.studentId] = 3
    /\ getTotalAbsences(absences, view.studentId) = 1

(***************************************************************************)
(* js/dashboard.js: the ratios of the charts.  The JavaScript division     *)
(* num / den gives NaN for 0 / 0 and Infinity for any other num / 0.       *)
(***************************************************************************)
jsDivide(num, den) ==
    IF den # 0 THEN Quotient(num, den)
    ELSE IF num = 0 THEN JNaN ELSE [t |-> "infinity"]

\* the reduce of calculateOverallAverage: the sum of the averages from index i on
RECURSIVE sumAverages(_, _)
sumAverages(list, i) ==
    IF i > Len(list) THEN Quotient(0, 1)
    ELSE LET rest == sumAverages(list, i + 1)
         IN  Quotient(list[i].average.num * rest.den + rest.num * list[i].average.den,
                      list[i].average.den * rest.den)

\* calculateOverallAverage(): 0 without averaged students, else total / length
calculateOverallAverage(ss, ms, gs) ==
    LET studentsWithAverages == getAllStudentsWithAverages(ss, ms, gs)
        total == sumAverages(studentsWithAverages, 1)
    IN  IF Len(studentsWithAverages) = 0 THEN Quotient(0, 1)
        ELSE jsDivide(total.num, total.den * Len(studentsWithAverages))

\* displayPassFailChart(): an empty state or the two percentages
displayPassFailChart(ss, ms, gs) ==
    LET averaged == {i \in 1..Len(ss) : calculateStudentAverage(ms, gs, ss[i].id) # JNull}
        passed == Cardinality({i \in averaged :
                                  AtLeast(calculateStudentAverage(ms, gs, ss[i].id), 10)})
        failed == Cardinality(averaged) - passed
        total == passed + failed
    IN  IF Len(ss) = 0 THEN [shown |-> "No data available"]
        ELSE IF total = 0 THEN [shown |-> "No grades available"]
             ELSE [shown |-> "chart", passedPercent |-> jsDivide(passed * 100, total),
                   failedPercent |-> jsDivide(failed * 100, total)]

\* displayMyTrendsChart() for the student the user is linked to: the empty state or
\* the points (x, y) of the path, x = (index / (grades.length - 1)) * chartWidth
displayMyTrendsChart(ms, gs, studentId) ==
    LET gradedModules == SelectSeq(ms, LAMBDA m : m.id \in studentGradeKeys(gs, studentId))
        length == Len(gradedModules)
    IN  IF length = 0 THEN [shown |-> "No grades available", points |-> <<>>]
        ELSE [shown |-> "chart",
              points |-> [k \in 1..length |->
                  LET ratio == jsDivide(k - 1, length - 1)
                      grade == studentGradeOf(gs, studentId, gradedModules[k].id)
                  IN  [x |-> IF ratio.t = "num" THEN Quotient(ratio.num * 100, ratio.den)
                             ELSE ratio,
                       y |-> Quotient(200 * 20 - grade * 200, 20)]]]

\* a JavaScript value that is a number other than NaN and Infinity
Defined(v) == v.t = "num" /\ v.den # 0

\* C21: in every state every ratio the dashboard computes is a number or the
\* sentinel null / 0, never NaN or Infinity: the averages, the success rate, the
\* overall average, the completion percentages, the pass / fail percentages and
\* the coordinates of the points of displayMyTrendsChart.
C21_RatiosDefined ==
    /\ \A i \in 1..Len(students) : AverageOf(i) = JNull \/ Defined(AverageOf(i))
    /\ calculateSuccessRate(students, modules, grades) \in 0..100
    /\ Defined(calculateOverallAverage(students, modules, grades))
    /\ \A k \in 1..Len(modules) :
          assessmentCompletion(students, modules, grades)[k].percentage \in Nat
    /\ LET chart == displayPassFailChart(students, modules, grades)
       IN  chart.shown = "chart" => Defined(chart.passedPercent) /\ Defined(chart.failedPercent)
    /\ \A i \in 1..Len(students) :
          LET chart == displayMyTrendsChart(modules, grades, students[i].id)
          IN  \A k \in 1..Len(chart.points) :
                  Defined(chart.points[k].x) /\ Defined(chart.points[k].y)

(***************************************************************************)
(* The views that classify an average: the call sites of getMention and    *)
(* the pass / fail status.  mentionArgs is the set of the arguments the    *)
(* view passes to getMention.                                              *)
(***************************************************************************)
\* displayTopWorstStudents(): what "if (bestStudent)" and "if (worstStudent)" let through
displayTopWorstStudents(ss, ms, gs) ==
    LET bestStudent == findBestStudent(ss, ms, gs)
        worstStudent == findWorstStudent(ss, ms, gs)
    IN  [mentionArgs |-> (IF bestStudent # JNull THEN {bestStudent.average} ELSE {})
                         \cup (IF worstStudent # JNull THEN {worstStudent.average} ELSE {})]

\* displayStudentStatistics calling getMention without its test of the average
displayStudentStatistics_unguarded(ms, gs, studentId) ==
    LET average == calculateStudentAverage(ms, gs, studentId)
    IN  [trend |-> IF average # JNull THEN getMention(average) ELSE "Ajourné",
         status |-> IF average # JNull /\ AtLeast(average, 10) THEN "Passed" ELSE "Failed",
         mentionArgs |-> {average}]

\* displayStudentStatistics() for the student the user is linked to: the trend of the
\* 'My Average' card and the value of the 'Status' card
displayStudentStatistics(ms, gs, studentId) ==
    LET average == calculateStudentAverage(ms, gs, studentId)
    IN  [trend |-> IF average # JNull THEN getMention(average) ELSE "N/A",
         status |-> IF average # JNull /\ AtLeast(average, 10) THEN "Passed" ELSE "Failed",
         mentionArgs |-> IF average # JNull THEN {average} ELSE {}]

\* displayMyPerformanceMetrics() for the student the user is linked to
displayMyPerformanceMetrics(ms, gs, studentId) ==
    LET average == calculateStudentAverage(ms, gs, studentId)
    IN  IF average = JNull THEN [shown |-> "No grades available", mentionArgs |-> {}]
        ELSE [shown |-> getMention(average), mentionArgs |-> {average}]

\* displayTopStudents() of the earlier dashboard.js: getTopStudents(5) and one
\* getMention per student of it
displayTopStudents(ss, ms, gs) ==
    LET sorted == sortByAverage(getAllStudentsWithAverages(ss, ms, gs))
        topStudents == SubSeq(sorted, 1, IF Len(sorted) < 5 THEN Len(sorted) ELSE 5)
    IN  [mentionArgs |-> {topStudents[k].average : k \in 1..Len(topStudents)}]

\* getStatus(average) of results.js: the text of the badge
getStatus(average) ==
    IF average = JNull THEN "No Grades"
    ELSE IF AtLeast(average, 10) THEN "Passed"
    ELSE "Failed"

\* calculateAllResults(): one result per stored student
calculateAllResults(ss, ms, gs) ==
    [i \in 1..Len(ss) |->
        LET result == resultsStudentAverage(ms, gs, ss[i].id)
        IN  [student |-> ss[i], average |-> result.average, hasGrades |-> result.hasGrades]]

\* displayResults() for a teacher with the filter filterValue: the rows of the table
displayResults(ss, ms, gs, filterValue) ==
    LET allResults == calculateAllResults(ss, ms, gs)
        filteredResults ==
            IF filterValue = "passed"
            THEN SelectSeq(allResults, LAMBDA r : r.average # JNull /\ AtLeast(r.average, 10))
            ELSE IF filterValue = "failed"
                 THEN SelectSeq(allResults, LAMBDA r : r.average = JNull \/ ~AtLeast(r.average, 10))
                 ELSE allResults
    IN  [k \in 1..Len(filteredResults) |->
            [id |-> filteredResults[k].student.id,
             status |-> getStatus(filteredResults[k].average),
             mention |-> IF filteredResults[k].average # JNull
                         THEN resultsGetMention(filteredResults[k].average).text ELSE "N/A",
             mentionArgs |-> IF filteredResults[k].average # JNull
                             THEN {filteredResults[k].average} ELSE {}]]

\* the arguments getMention is called with by the views of the present state
MentionArguments ==
    UNION ({displayTopWorstStudents(students, modules, grades).mentionArgs,
            displayTopStudents(students, modules, grades).mentionArgs}
           \cup {displayStudentStatistics(modules, grades, students[i].id).mentionArgs :
                    i \in 1..Len(students)}
           \cup {displayMyPerformanceMetrics(modules, grades, students[i].id).mentionArgs :
                    i \in 1..Len(students)}
           \cup {displayResults(students, modules, grades, "all")[k].mentionArgs :
                    k \in 1..Len(students)})

\* C22: in every state no view passes null to getMention: every argument of a
\* call of getMention by displayTopWorstStudents, displayStudentStatistics,
\* displayMyPerformanceMetrics, displayTopStudents and displayResults is a number.
C22_MentionNeverNull ==
    \A average \in MentionArguments : average # JNull /\ average.t = "num"

\* C22 witness: of three students one has no average, and its views show 'N/A'
\* and 'No grades available' while getMention is called for the two others
C22_Witness ==
    /\ Len(students) = 3
    /\ Averaged = {1, 2}
    /\ MentionArguments = {AverageOf(1), AverageOf(2)}
    /\ displayStudentStatistics(modules, grades, students[3].id).trend = "N/A"
    /\ displayMyPerformanceMetrics(modules, grades, students[3].id).shown = "No grades available"
    /\ displayResults(students, modules, grades, "all")[3].mention = "N/A"

\* the stored student i has an average and it is below 10
BelowTen(i) == AverageOf(i) # JNull /\ AverageOf(i).num < 10 * AverageOf(i).den

\* C28: in every view a student is reported as failed exactly when the student has
\* an average below 10: by getStatus, by the 'failed' filter of the results page
\* and by the 'Status' card of the student dashboard; a student without an
\* average is reported neither as passed nor as failed.
C28_FailedIffBelowTen ==
    \A i \in 1..Len(students) :
        LET failedRows == displayResults(students, modules, grades, "failed")
            passedRows == displayResults(students, modules, grades, "passed")
            card == displayStudentStatistics(modules, grades, students[i].id)
        IN  /\ getStatus(resultsStudentAverage(modules, grades, students[i].id).average) = "Failed"
                  <=> BelowTen(i)
            /\ (\E k \in 1..Len(failedRows) : failedRows[k].id = students[i].id) <=> BelowTen(i)
            /\ card.status = "Failed" <=> BelowTen(i)
            /\ AverageOf(i) = JNull =>
                  /\ card.status \notin {"Passed", "Failed"}
                  /\ \A k \in 1..Len(passedRows) : passedRows[k].id # students[i].id

\* C23: for every student id the average field calculateStudentAverage of
\* results.js returns equals what calculateStudentAverage of dashboard.js returns
\* (both null or the same number), and hasGrades is true exactly when the
\* latter is not null.
C23_CopiesAgree ==
    \A s \in StudentIds :
        LET dashboard == calculateStudentAverage(modules, grades, s)
            results == resultsStudentAverage(modules, grades, s)
        IN  /\ results.average = dashboard
            /\ results.hasGrades <=> dashboard # JNull

\* C23 witness: one module is stored, of coefficient 2; student 1 has the grade 0
\* for it and both copies return 0 / 2; student 2 has only a grade for a module
\* that is not stored, and both return null
C23_Witness ==
    /\ Len(modules) = 1
    /\ calculateStudentAverage(modules, grades, 1) = Quotient(0, 2)
    /\ resultsStudentAverage(modules, grades, 1).hasGrades
    /\ \E k \in 1..Len(grades) :
          grades[k].studentId = 2 /\ ~moduleExists(modules, grades[k].moduleId)
    /\ resultsStudentAverage(modules, grades, 2).average = JNull

(***************************************************************************)
(* js/data.js: addStudent over a localStorage whose write can fail.        *)
(* students is the persisted collection; written tells whether             *)
(* localStorage.setItem stored the value or threw (disabled or full).      *)
(***************************************************************************)
\* saveStudents(students): the persisted collection afterwards; the catch swallows the error
saveStudents(persisted, ss, written) == IF written THEN ss ELSE persisted

\* addStudent(student) with its saveStudents: [ret, students]
addStudentSaving(persisted, student, written) ==
    LET r == addStudent(persisted, student)
    IN  IF ~r.ret THEN [ret |-> FALSE, students |-> persisted]
        ELSE [ret |-> TRUE, students |-> saveStudents(persisted, r.students, written)]

\* addStudent(student), the write succeeding or failing
AddStudentSaving ==
    \E student \in StudentEdits, written \in BOOLEAN :
        LET r == addStudentSaving(students, student, written)
        IN  /\ Len(r.students) <= MaxStudentId
            /\ students' = r.students
            /\ call' = [op |-> "addStudent", sid |-> 0, mid |-> 0, ret |-> Bool(r.ret)]
            /\ view' = [op |-> "addStudent", cin |-> student.cin, ret |-> r.ret,
                        existed |-> \E i \in 1..Len(students) : students[i].cin = student.cin]
            /\ UNCHANGED <<modules, grades, absences, editingModuleId, field, lastSet, editingStudentId, studentCIN>>

NextSaving ==
    \/ AddStudentSaving
    \/ DeleteStudent

SpecSaving == Init /\ [][NextSaving]_vars

\* C24: right after addStudent returned true a student with the given cin is in
\* the persisted students, also when the write to the storage failed; and it
\* returned false only if the cin was there before the call.
C24_TrueMeansStored ==
    (call.op = "addStudent" /\ view.op = "addStudent") =>
        /\ view.ret => \E i \in 1..Len(students) : students[i].cin = view.cin
        /\ ~view.ret => view.existed

(***************************************************************************)
(* js/students.js: the student form.  editingStudentId is 0 for null;      *)
(* studentCIN is the input of the national id, its value and whether it is *)
(* disabled.  A student of the form is [id, cin, name, group]; the linked   *)
(* user account is left out (userId is null).                              *)
(***************************************************************************)
\* an input of the national id that editStudent did not disable
studentCINValue_enabled(input, typed) == typed

\* document.getElementById('studentCIN').value at submit: what was typed, unless
\* the input is disabled and keeps the value editStudent gave it
studentCINValue(input, typed) == IF input.disabled THEN input.value ELSE typed

\* handleFormSubmit of students.js without its resetForm() after a success
studentFormSubmit_noReset(ss, editing, input, nameText, cinText, groupText) ==
    LET name == Trim(nameText)
        cin == Trim(studentCINValue(input, cinText))
        group == Trim(groupText)
        kept == [value |-> studentCINValue(input, cinText), disabled |-> input.disabled]
        studentData == [id |-> 0, cin |-> cin, name |-> name, group |-> group]
    IN  IF name = "" \/ cin = "" \/ group = "" \/ Len(cin) < 5 \/ Len(cin) > 10
        THEN [students |-> ss, editingStudentId |-> editing, studentCIN |-> kept, ret |-> "invalid"]
        ELSE LET r == IF editing # 0 THEN updateStudent(ss, editing, studentData)
                                     ELSE addStudent(ss, studentData)
             IN  [students |-> r.students, editingStudentId |-> editing, studentCIN |-> kept,
                  ret |-> Bool(r.ret)]

\* handleFormSubmit(event) of students.js: [students, editingStudentId, studentCIN, ret];
\* ret is "invalid" when validation stops it, else what updateStudent / addStudent returned
studentFormSubmit(ss, editing, input, nameText, cinText, groupText) ==
    LET name == Trim(nameText)
        cin == Trim(studentCINValue(input, cinText))
        group == Trim(groupText)
        kept == [value |-> studentCINValue(input, cinText), disabled |-> input.disabled]
        studentData == [id |-> 0, cin |-> cin, name |-> name, group |-> group]
    IN  IF name = "" \/ cin = "" \/ group = ""
        THEN [students |-> ss, editingStudentId |-> editing, studentCIN |-> kept, ret |-> "invalid"]
        ELSE IF Len(cin) < 5 \/ Len(cin) > 10
             THEN [students |-> ss, editingStudentId |-> editing, studentCIN |-> kept,
                   ret |-> "invalid"]
             ELSE LET r == IF editing # 0 THEN updateStudent(ss, editing, studentData)
                                          ELSE addStudent(ss, studentData)
                  IN  IF r.ret
                      THEN [students |-> r.students, editingStudentId |-> 0,
                            studentCIN |-> [value |-> "", disabled |-> FALSE], ret |-> "true"]
                      ELSE [students |-> r.students, editingStudentId |-> editing,
                            studentCIN |-> kept, ret |-> "false"]

\* the submit button, with the texts of the name, national id and group inputs
StudentFormSubmit ==
    \E nameText \in {"", "Ali", "Sara"}, cinText \in {"", "AB1", "AB12345", " CD67890 "},
       groupText \in {"", "G1"} :
        LET r == studentFormSubmit(students, editingStudentId, studentCIN,
                                   nameText, cinText, groupText)
        IN  /\ Len(r.students) > Len(students) => MaxIdOf(students) + 1 <= MaxStudentId
            /\ students' = r.students
            /\ editingStudentId' = r.editingStudentId
            /\ studentCIN' = r.studentCIN
            /\ call' = [op |-> "studentFormSubmit", sid |-> editingStudentId, mid |-> 0,
                        ret |-> r.ret]
            /\ UNCHANGED <<modules, grades, absences, editingModuleId, field, lastSet, view>>

\* editStudent(studentId)
EditStudent ==
    \E id \in StudentIds :
        /\ IF studentExists(students, id)
           THEN /\ editingStudentId' = id
                /\ studentCIN' = [value |-> students[IdIndex(students, id)].cin, disabled |-> TRUE]
           ELSE UNCHANGED <<editingStudentId, studentCIN>>
        /\ call' = [op |-> "editStudent", sid |-> id, mid |-> 0,
                    ret |-> Bool(studentExists(students, id))]
        /\ UNCHANGED <<students, modules, grades, absences, editingModuleId, field, lastSet, view>>

\* resetForm() of students.js, the Cancel button
ResetStudentForm ==
    /\ editingStudentId' = 0
    /\ studentCIN' = [value |-> "", disabled |-> FALSE]
    /\ call' = [op |-> "resetStudentForm", sid |-> 0, mid |-> 0, ret |-> "undefined"]
    /\ UNCHANGED <<students, modules, grades, absences, editingModuleId, field, lastSet, view>>

\* deleteStudentHandler(studentId); confirmed is the answer to confirm()
DeleteStudentHandler ==
    \E id \in StudentIds, confirmed \in BOOLEAN :
        LET r == deleteStudent(store, id)
        IN  /\ studentExists(students, id)
            /\ IF confirmed
               THEN /\ students' = r.students
                    /\ modules' = r.modules
                    /\ grades' = r.grades
                    /\ absences' = r.absences
                    /\ IF editingStudentId = id
                       THEN /\ editingStudentId' = 0
                            /\ studentCIN' = [value |-> "", disabled |-> FALSE]
                       ELSE UNCHANGED <<editingStudentId, studentCIN>>
               ELSE UNCHANGED <<students, modules, grades, absences, editingStudentId, studentCIN>>
            /\ call' = [op |-> "deleteStudentHandler", sid |-> id, mid |-> 0,
                        ret |-> Bool(confirmed)]
            /\ UNCHANGED <<editingModuleId, field, lastSet, view>>

\* the submit button of the modules page
EditFormsModuleSubmit ==
    \E nameText \in {"", "Math", "Phys"}, coefficientText \in {"0", "1"} :
        ModuleFormSubmitCall(nameText, coefficientText)

(***************************************************************************)
(* The students page and the modules page: submit, edit, cancel and delete *)
(* in any order.                                                           *)
(***************************************************************************)
NextEditForms ==
    \/ StudentFormSubmit
    \/ EditStudent
    \/ ResetStudentForm
    \/ DeleteStudentHandler
    \/ EditFormsModuleSubmit
    \/ EditModule
    \/ ResetModuleForm
    \/ DeleteModuleHandler

SpecEditForms == Init /\ [][NextEditForms]_vars

\* C25: no operation of the student form changes the cin of a student that is in
\* the store before and after it.
C25_CinImmutable ==
    [][\A i \in 1..Len(students), j \in 1..Len(students') :
          students[i].id = students'[j].id => students'[j].cin = students[i].cin]_vars

\* a submit in edit mode updated a student while another one is stored
C25_Witness ==
    /\ call.op = "studentFormSubmit" /\ call.sid # 0 /\ call.ret = "true"
    /\ studentExists(students, call.sid)
    /\ Len(students) = 2

\* C27: editingStudentId (resp. editingModuleId) is null or the id of a stored
\* student (resp. module); a successful submit, cancel and the deletion of the
\* record being edited leave the form idle, a failed submit leaves the id as it was.
C27_EditingIdExists ==
    /\ [](/\ editingStudentId = 0 \/ studentExists(students, editingStudentId)
          /\ editingModuleId = 0 \/ moduleExists(modules, editingModuleId))
    /\ [][/\ call'.op = "studentFormSubmit" =>
               editingStudentId' = IF call'.ret = "true" THEN 0 ELSE editingStudentId
          /\ call'.op = "moduleFormSubmit" =>
               editingModuleId' = IF call'.ret = "true" THEN 0 ELSE editingModuleId
          /\ call'.op = "resetStudentForm" => editingStudentId' = 0
          /\ call'.op = "resetForm" => editingModuleId' = 0
          /\ (call'.op = "deleteStudentHandler" /\ call'.ret = "true"
                /\ call'.sid = editingStudentId) => editingStudentId' = 0
          /\ (call'.op = "deleteModuleHandler" /\ call'.ret = "true"
                /\ call'.mid = editingModuleId) => editingModuleId' = 0]_vars

\* a submit failed while a student is edited, a module being edited as well
C27_Witness ==
    /\ call.op = "studentFormSubmit" /\ call.ret = "invalid"
    /\ call.sid # 0 /\ editingStudentId = call.sid
    /\ editingModuleId # 0

\* C26: right after a successful addStudent (resp. addModule) no Grade record and
\* no Absence record carries the id of the new student (resp. module), also when
\* the id was the id of a deleted one.
C26_NewEntityHasNoFacts ==
    /\ (call.op = "addStudent" /\ call.ret = "true") =>
          /\ \A i \in 1..Len(grades) : grades[i].studentId # call.sid
          /\ \A i \in 1..Len(absences) : absences[i].studentId # call.sid
    /\ (call.op = "addModule" /\ call.ret = "true") =>
          /\ \A i \in 1..Len(grades) : grades[i].moduleId # call.mid
          /\ \A i \in 1..Len(absences) : absences[i].moduleId # call.mid

(***************************************************************************)
(* js/grades.js: the grades table, whose inputs call their handler on      *)
(* change and again on blur.                                               *)
(***************************************************************************)
\* the inputs of the first student's row
EntryGradeChange ==
    \E m \in ModuleIds, text \in {"", "abc", "0", " 20 ", "21"} : HandleGradeChangeCall(1, m, text)

EntryAbsenceChange ==
    \E m \in ModuleIds, text \in {"", "abc", "-1", "0", "2"} : HandleAbsenceChangeCall(1, m, text)

NextEntry ==
    \/ StoreAddStudent
    \/ StoreAddModule
    \/ EntryGradeChange
    \/ EntryAbsenceChange

SpecEntry == Init /\ [][NextEntry]_vars

\* C29: in every state, for every cell of the table and every text of its input,
\* handleGradeChange (resp. handleAbsenceChange) run a second time, on the text as
\* typed or as the first run left it in the input, leaves the grades (resp. the
\* absences) as they are after the first run.
C29_EntryIdempotent ==
    \A s \in StudentIds, m \in ModuleIds :
        Row(s, m) =>
            /\ \A text \in GradeTexts :
                   LET once == handleGradeChange(grades, s, m, text)
                   IN  /\ handleGradeChange(once.grades, s, m, text).grades = once.grades
                       /\ handleGradeChange(once.grades, s, m, once.field).grades = once.grades
            /\ \A text \in AbsenceTexts :
                   LET once == handleAbsenceChange(absences, s, m, text)
                   IN  /\ handleAbsenceChange(once.absences, s, m, text).absences = once.absences
                       /\ handleAbsenceChange(once.absences, s, m, once.field).absences
                              = once.absences

\* a text was rejected and the input given back the stored grade, absences being stored too
C29_Witness ==
    /\ call.op = "handleGradeChange" /\ call.ret = "rejected"
    /\ field = "20"
    /\ Len(absences) > 0

(***************************************************************************)
(* Students and modules come and go while grades are entered in the cells  *)
(* of the grades table.                                                    *)
(***************************************************************************)
NextRoster ==
    \/ StoreAddStudent
    \/ StoreAddModule
    \/ RowSetGrade
    \/ DeleteStudent
    \/ DeleteModule

SpecRoster == Init /\ [][NextRoster]_vars

\* the Grade records of a module
GradesOfModule(m) == SelectSeq(grades, LAMBDA g : g.moduleId = m)

\* C30: for every module id the number of Grade records is at most the number of
\* stored students, and every percentage of updateAssessmentChart is an integer
\* from 0 to 100.
C30_CompletionBounded ==
    /\ \A m \in ModuleIds : Len(GradesOfModule(m)) <= Len(students)
    /\ \A i \in 1..Len(modules) :
          assessmentCompletion(students, modules, grades)[i].percentage \in 0..100

\* a student was deleted while the other one keeps a grade in a module
C30_Witness ==
    /\ call.op = "deleteStudent"
    /\ Len(students) = 1
    /\ \E i \in 1..Len(modules) :
          assessmentCompletion(students, modules, grades)[i].percentage = 100

====
